---------------------------- MODULE Spec2Model ----------------------------
(***************************************************************************)
(* The two batch editors of habitat's docs:                                *)
(*   add-text-size-control.py  (the Text-Size Patcher)                     *)
(*   add-dark-mode-toggle.py   (the Dark-Mode Patcher)                     *)
(* and the client-side adjustTextSize script that the first one inserts.   *)
(*                                                                         *)
(* A page is a sequence of tokens.  Every literal the patchers search for  *)
(* lies inside one token, so a substring test is a test for the tokens     *)
(* that contain the substring, and a regular expression is matched on the  *)
(* token sequence:                                                         *)
(*   "ws"      a non-empty piece of whitespace (pieces may be adjacent;    *)
(*             \s* matches any number of them)                             *)
(*   "x"       any other text, holding none of the literals below          *)
(*   "cmt"     <!-- Text Size Adjustment Tool -->                          *)
(*   "tsc"     <div class="text-size-control">                             *)
(*   "tscw"    other text holding the word text-size-control (a CSS rule,  *)
(*             a link to text-size-control.html)                           *)
(*   "rest"    the widget markup and script between "tsc" and "tail"       *)
(*   "tail"    window.adjustTextSize = adjustTextSize; })(); </script>     *)
(*   "icons"   <script>lucide.createIcons();</script>                      *)
(*   "body"    </body>                                                     *)
(*   "sc"      <div class="site-controls">                                 *)
(*   "btn"     <button class="theme-toggle" onclick="toggleTheme()" ...>   *)
(*             ... </button>, the button markup the Dark-Mode Patcher      *)
(*             inserts                                                     *)
(*   "btnx"    a <button class="theme-toggle" ...> whose markup does not   *)
(*             hold the word toggleTheme                                   *)
(*   "scclose" </div><!-- /site-controls -->                               *)
(*   "tt"      the <script> defining toggleTheme (or any other text        *)
(*             holding the word toggleTheme outside a theme-toggle button) *)
(***************************************************************************)
EXTENDS Integers, Sequences, FiniteSets

VARIABLES
    \* --- one file under the two patchers (Spec) ---
    orig,       \* the file's content before any run
    content,    \* the file's content now
    before,     \* the file's content before the last run
    last,       \* the last run: patcher, return value, message, whether it wrote
    prev,       \* the run before the last: patcher, return value
    pipeline,   \* the order the patchers were run in so far
    \* --- a sweep of main() over a directory (SpecRun) ---
    files,      \* sorted(html_files): the contents of the eligible files
    start,      \* the contents when the sweep began
    patcher,    \* which script is running
    pc,         \* "idle", "loop", "done"
    idx,        \* position of the for loop
    updated,
    skipped,
    \* --- the inserted widget script in a browser (SpecSize) ---
    textSize,   \* localStorage item 'textSize' ("null" when unset)
    fontSize,   \* document.documentElement.style.fontSize
    active,     \* positions of the .text-size-btn buttons with class active
    clicks      \* the events so far: [action, from, to]

patchVars == <<orig, content, before, last, prev, pipeline>>
runVars == <<files, start, patcher, pc, idx, updated, skipped>>
sizeVars == <<textSize, fontSize, active, clicks>>
vars == <<patchVars, runVars, sizeVars>>

\* Bounds of the model.
MaxLen == 3
MaxFiles == 5
MaxClicks == 5

Tokens ==
    {"x", "ws", "cmt", "tsc", "tscw", "tail", "icons", "body",
     "sc", "btn", "btnx", "scclose", "tt"}

-----------------------------------------------------------------------------
(* Text on token sequences *)

At(c, i) == IF i >= 1 /\ i <= Len(c) THEN c[i] ELSE "eof"

Contains(c, S) == \E i \in 1..Len(c) : c[i] \in S

Min(S) == CHOOSE m \in S : \A n \in S : m <= n

\* \s* from position i: the first position that is not whitespace.
RECURSIVE SkipWs(_, _)
SkipWs(c, i) == IF At(c, i) = "ws" THEN SkipWs(c, i + 1) ELSE i

Result(c, r, msg, w) == [content |-> c, ret |-> r, outcome |-> msg, wrote |-> w]

-----------------------------------------------------------------------------
(* add-text-size-control.py *)

TEXT_SIZE_CONTROL == <<"ws", "cmt", "ws", "tsc", "rest", "ws", "tail", "ws">>


\* A skip test for a marker the inserted snippet does not hold.
HasTextSizeWordOtherMarker(c) == Contains(c, {"tscw"})

\* 'text-size-control' in content
HasTextSizeWord(c) == Contains(c, {"tsc", "tscw"})

\* A match of (\s*<script>lucide\.createIcons\(\);</script>\s*</body>) that
\* starts at i: the position of its last token, or 0.
AnchorEnd(c, i) ==
    LET j == SkipWs(c, i)
        k == SkipWs(c, j + 1)
    IN  IF At(c, j) = "icons" /\ At(c, k) = "body" THEN k ELSE 0

\* re.search(pattern, content)
HasAnchor(c) == \E i \in 1..Len(c) : AnchorEnd(c, i) # 0

\* re.sub(pattern, TEXT_SIZE_CONTROL + r'\1', content) from position i on:
\* no count is given, so every non-overlapping match is replaced.
RECURSIVE InsertBeforeAnchors(_, _)
InsertBeforeAnchors(c, i) ==
    IF i > Len(c) THEN <<>>
    ELSE LET e == AnchorEnd(c, i)
         IN  IF e # 0
             THEN TEXT_SIZE_CONTROL \o SubSeq(c, i, e) \o InsertBeforeAnchors(c, e + 1)
             ELSE <<c[i]>> \o InsertBeforeAnchors(c, i + 1)

add_text_size_control(c) ==
    IF HasTextSizeWord(c)
    THEN Result(c, FALSE, "already has text-size control", FALSE)
    ELSE IF HasAnchor(c)
    THEN Result(InsertBeforeAnchors(c, 1), TRUE, "added text-size control", TRUE)
    ELSE Result(c, FALSE, "could not find insertion point", FALSE)

-----------------------------------------------------------------------------
(* add-dark-mode-toggle.py *)

DARK_MODE_TOGGLE_AND_SCRIPT == <<"ws", "scclose", "ws", "tt", "ws">>


\* The State-C replacement with the button left out.
WRAP_WITHOUT_BUTTON == <<"sc", "ws", "tsc">>

\* The State-C replacement after \1: the wrapper, the button, the control.
WRAP_REPLACEMENT == <<"sc", "ws", "btn", "ws", "tsc">>

\* The State-D replacement after \1: the button, the control.
BUTTON_REPLACEMENT == <<"btn", "ws", "tsc">>


\* A State-A test for the function definition only.
HasToggleThemeDefinition(c) == Contains(c, {"tt"})

\* 'toggleTheme' in content
HasToggleTheme(c) == Contains(c, {"btn", "tt"})


\* A State-B test for the word instead of the container tag.
HasTextSizeDivWord(c) == Contains(c, {"tsc", "tscw"})

\* '<div class="text-size-control">' in content
HasTextSizeDiv(c) == Contains(c, {"tsc"})

\* '<div class="site-controls">' in content
HasSiteControls(c) == Contains(c, {"sc"})

\* '<button class="theme-toggle"' in content
HasThemeToggleButton(c) == Contains(c, {"btn", "btnx"})

\* '</div><!-- /site-controls -->' in content
HasSiteControlsClose(c) == Contains(c, {"scclose"})

\* Starts of matches of (<!-- Text Size Adjustment Tool -->\s*)<div class="text-size-control">
WrapMatches(c) ==
    {i \in 1..Len(c) : c[i] = "cmt" /\ At(c, SkipWs(c, i + 1)) = "tsc"}

\* re.sub(pattern, replacement, content, count=1) of State C, first step
SubWrap(c) ==
    IF WrapMatches(c) = {} THEN c
    ELSE LET i == Min(WrapMatches(c))
             j == SkipWs(c, i + 1)
         IN  SubSeq(c, 1, j - 1) \o WRAP_REPLACEMENT \o SubSeq(c, j + 1, Len(c))


\* The pattern without the \s* between its two groups.
ScriptMatchesNoSpace(c) ==
    {i \in 1..Len(c) :
        /\ At(c, SkipWs(c, i)) = "tail"
        /\ At(c, SkipWs(c, i) + 1) = "icons"}

\* Starts of matches of
\* (\s*window\.adjustTextSize = adjustTextSize;\s*}\)\(\);\s*</script>)\s*(<script>lucide\.createIcons\(\);</script>)
ScriptMatches(c) ==
    {i \in 1..Len(c) :
        /\ At(c, SkipWs(c, i)) = "tail"
        /\ At(c, SkipWs(c, SkipWs(c, i) + 1)) = "icons"}

\* re.sub(pattern, r'\1\n\n' + DARK_MODE_TOGGLE_AND_SCRIPT + r'\n\n\2', content, count=1)
SubScript(c) ==
    IF ScriptMatches(c) = {} THEN c
    ELSE LET i == Min(ScriptMatches(c))
             j == SkipWs(c, i)
             k == SkipWs(c, j + 1)
         IN  SubSeq(c, 1, j) \o <<"ws">> \o DARK_MODE_TOGGLE_AND_SCRIPT \o <<"ws">>
                 \o SubSeq(c, k, Len(c))

\* Starts of matches of (<div class="site-controls">\s*)<div class="text-size-control">
ButtonMatches(c) ==
    {i \in 1..Len(c) : c[i] = "sc" /\ At(c, SkipWs(c, i + 1)) = "tsc"}

\* re.sub(pattern, replacement, content, count=1) of State D, first step
SubButton(c) ==
    IF ButtonMatches(c) = {} THEN c
    ELSE LET i == Min(ButtonMatches(c))
             j == SkipWs(c, i + 1)
         IN  SubSeq(c, 1, j - 1) \o BUTTON_REPLACEMENT \o SubSeq(c, j + 1, Len(c))

add_dark_mode_toggle(c) ==
    IF HasToggleTheme(c)
    THEN Result(c, FALSE, "already has dark mode toggle", FALSE)
    ELSE IF ~HasTextSizeDiv(c)
    THEN Result(c, FALSE, "missing text-size-control, skipping", FALSE)
    ELSE IF ~HasSiteControls(c)
    THEN Result(SubScript(SubWrap(c)), TRUE, "added dark mode toggle", TRUE)
    ELSE IF ~HasThemeToggleButton(c)
    THEN LET c1 == SubButton(c)
             c2 == IF ~HasSiteControlsClose(c1) THEN SubScript(c1) ELSE c1
         IN  Result(c2, TRUE, "added theme toggle button", TRUE)
    ELSE Result(c, FALSE, "already complete", FALSE)

Patch(p, c) == IF p = "size" THEN add_text_size_control(c) ELSE add_dark_mode_toggle(c)

-----------------------------------------------------------------------------
(* One file, patched by the two scripts in any order (Spec) *)

\* Longer pages of the docs' template, beside every page of up to MaxLen tokens.
PlainPage == <<"x", "ws", "icons", "ws", "body">>
TwoAnchorPage == <<"x", "ws", "icons", "ws", "body", "ws", "icons", "ws", "body">>
WrappedPage == <<"x", "sc">> \o TEXT_SIZE_CONTROL \o <<"scclose", "ws", "icons", "ws", "body">>
StrayTailPage == <<"tail", "icons", "x", "ws", "icons", "ws", "body">>
SizedPage == <<"x">> \o TEXT_SIZE_CONTROL \o <<"ws", "icons", "ws", "body">>
InnerWrapPage ==
    <<"x", "sc", "ws", "tsc", "rest", "ws", "tail", "ws", "icons", "ws", "body">>
ClosedWrapPage ==
    <<"x", "sc", "ws", "tsc", "rest", "ws", "tail", "ws", "icons", "scclose", "body">>
NoAnchorPage == <<"x", "ws", "body">>
BareControlPage == <<"x", "tsc", "rest", "ws", "body">>
ExamplePages ==
    {PlainPage, TwoAnchorPage, WrappedPage, StrayTailPage, SizedPage,
     InnerWrapPage, ClosedWrapPage}

Pages == UNION {[1..n -> Tokens] : n \in 0..MaxLen} \cup ExamplePages

NoRun == [p |-> "none", ret |-> FALSE, outcome |-> "none", wrote |-> FALSE]

IdleRun ==
    /\ files = <<>>
    /\ start = <<>>
    /\ patcher = "none"
    /\ pc = "idle"
    /\ idx = 0
    /\ updated = 0
    /\ skipped = 0

IdleSize ==
    /\ textSize = "null"
    /\ fontSize = "16px"
    /\ active = {1}
    /\ clicks = <<>>

IdlePatch ==
    /\ orig = <<>>
    /\ content = <<>>
    /\ before = <<>>
    /\ last = NoRun
    /\ prev = [p |-> "none", ret |-> FALSE]
    /\ pipeline = <<>>

Init ==
    /\ content \in Pages
    /\ orig = content
    /\ before = content
    /\ last = NoRun
    /\ prev = [p |-> "none", ret |-> FALSE]
    /\ pipeline = <<>>
    /\ IdleRun
    /\ IdleSize

\* The order of the runs so far, kept up to the two-step pipeline and one run
\* past it; any other order is "other".
NextPipeline(pl, p) ==
    IF pl = <<>> /\ p = "size" THEN <<"size">>
    ELSE IF pl = <<"size">> /\ p = "dark" THEN <<"size", "dark">>
    ELSE IF pl \in {<<"size", "dark">>, <<"size", "dark", "more">>}
    THEN <<"size", "dark", "more">>
    ELSE <<"other">>

RunTextSize ==
    LET r == add_text_size_control(content)
    IN  /\ content' = r.content
        /\ before' = content
        /\ last' = [p |-> "size", ret |-> r.ret, outcome |-> r.outcome, wrote |-> r.wrote]
        /\ prev' = [p |-> last.p, ret |-> last.ret]
        /\ pipeline' = NextPipeline(pipeline, "size")
        /\ UNCHANGED <<orig, runVars, sizeVars>>

RunDarkMode ==
    LET r == add_dark_mode_toggle(content)
    IN  /\ content' = r.content
        /\ before' = content
        /\ last' = [p |-> "dark", ret |-> r.ret, outcome |-> r.outcome, wrote |-> r.wrote]
        /\ prev' = [p |-> last.p, ret |-> last.ret]
        /\ pipeline' = NextPipeline(pipeline, "dark")
        /\ UNCHANGED <<orig, runVars, sizeVars>>

Next == RunTextSize \/ RunDarkMode

Spec == Init /\ [][Next]_vars

-----------------------------------------------------------------------------
(* main(): one sweep over the eligible files (SpecRun) *)

\* The pages a docs tree holds: unpatched, already sized, without the
\* insertion anchor, and with a control that is not the inserted snippet.
RunPages == {PlainPage, SizedPage, NoAnchorPage, BareControlPage}

\* files is sorted(html_files) after the text-size-control.html filter.
InitRun ==
    /\ files \in UNION {[1..n -> RunPages] : n \in 0..MaxFiles}
    /\ start = files
    /\ patcher = "none"
    /\ pc = "idle"
    /\ idx = 0
    /\ updated = 0
    /\ skipped = 0
    /\ IdlePatch
    /\ IdleSize

StartTextSize ==
    /\ pc \in {"idle", "done"}
    /\ pc' = "loop"
    /\ patcher' = "size"
    /\ start' = files
    /\ idx' = 1
    /\ updated' = 0
    /\ skipped' = 0
    /\ UNCHANGED <<files, patchVars, sizeVars>>

StartDarkMode ==
    /\ pc \in {"idle", "done"}
    /\ pc' = "loop"
    /\ patcher' = "dark"
    /\ start' = files
    /\ idx' = 1
    /\ updated' = 0
    /\ skipped' = 0
    /\ UNCHANGED <<files, patchVars, sizeVars>>

\* One iteration of: for html_file in sorted(html_files)
ProcessFile ==
    /\ pc = "loop"
    /\ idx <= Len(files)
    /\ LET r == Patch(patcher, files[idx])
       IN  /\ files' = [files EXCEPT ![idx] = r.content]
           /\ updated' = IF r.ret THEN updated + 1 ELSE updated
           /\ skipped' = IF r.ret THEN skipped ELSE skipped + 1
    /\ idx' = idx + 1
    /\ UNCHANGED <<start, patcher, pc, patchVars, sizeVars>>

\* The loop is over: print the summary.
PrintSummary ==
    /\ pc = "loop"
    /\ idx > Len(files)
    /\ pc' = "done"
    /\ UNCHANGED <<files, start, patcher, idx, updated, skipped, patchVars, sizeVars>>

NextRun == StartTextSize \/ StartDarkMode \/ ProcessFile \/ PrintSummary

SpecRun == InitRun /\ [][NextRun]_vars

-----------------------------------------------------------------------------
(* The inserted text-size script in a browser (SpecSize) *)

sizes == <<"small", "normal", "large">>

fontSizes == [small |-> "15px", normal |-> "16px", large |-> "18px"]

\* localStorage.getItem('textSize') || 'normal'
CurrentSize == IF textSize = "null" THEN "normal" ELSE textSize


\* A progression that wraps around at both ends.
NewSizeWrapping(action, currentSize) ==
    IF action = "decrease"
    THEN IF currentSize = "normal" THEN "small"
         ELSE IF currentSize = "large" THEN "normal"
         ELSE "large"
    ELSE IF action = "increase"
    THEN IF currentSize = "small" THEN "normal"
         ELSE IF currentSize = "normal" THEN "large"
         ELSE "small"
    ELSE IF action = "reset" THEN "normal"
    ELSE currentSize

\* newSize as adjustTextSize computes it
NewSize(action, currentSize) ==
    IF action = "decrease"
    THEN IF currentSize = "normal" THEN "small"
         ELSE IF currentSize = "large" THEN "normal"
         ELSE currentSize
    ELSE IF action = "increase"
    THEN IF currentSize = "small" THEN "normal"
         ELSE IF currentSize = "normal" THEN "large"
         ELSE currentSize
    ELSE IF action = "reset" THEN "normal"
    ELSE currentSize

applyTextSize(size) == fontSizes[size]

\* The positions (from 0) left with class active.
updateButtons(size) ==
    IF size = "small" THEN {0}
    ELSE IF size = "normal" THEN {1}
    ELSE IF size = "large" THEN {2}
    ELSE {}

\* The page as first loaded, nothing persisted: the reset button is active.
InitSize ==
    /\ textSize = "null"
    /\ fontSize = applyTextSize("normal")
    /\ active = {1}
    /\ clicks = <<>>
    /\ IdlePatch
    /\ IdleRun

adjustTextSize(action) ==
    LET currentSize == CurrentSize
        newSize == NewSize(action, currentSize)
    IN  /\ Len(clicks) < MaxClicks
        /\ textSize' = newSize
        /\ fontSize' = applyTextSize(newSize)
        /\ active' = updateButtons(newSize)
        /\ clicks' = Append(clicks, [action |-> action, from |-> currentSize, to |-> newSize])
        /\ UNCHANGED <<patchVars, runVars>>

\* A click on one of the three buttons.
Click == \E action \in {"decrease", "increase", "reset"} : adjustTextSize(action)

\* The page is loaded again: the script applies the saved size and, on
\* DOMContentLoaded, marks its button.
Reload ==
    LET savedSize == CurrentSize
    IN  /\ Len(clicks) < MaxClicks
        /\ fontSize' = applyTextSize(savedSize)
        /\ active' = updateButtons(savedSize)
        /\ clicks' = Append(clicks, [action |-> "load", from |-> savedSize, to |-> savedSize])
        /\ UNCHANGED <<textSize, patchVars, runVars>>

NextSize == Click \/ Reload

SpecSize == InitSize /\ [][NextSize]_vars

-----------------------------------------------------------------------------
(* Properties *)

Count(c, S) == Cardinality({i \in 1..Len(c) : c[i] \in S})

RECURSIVE Filter(_, _)
Filter(c, S) ==
    IF c = <<>> THEN <<>>
    ELSE IF Head(c) \in S THEN <<Head(c)>> \o Filter(Tail(c), S)
    ELSE Filter(Tail(c), S)

HasSegment(c, seg) ==
    \E i \in 1..(Len(c) - Len(seg) + 1) : SubSeq(c, i, i + Len(seg) - 1) = seg

\* The tokens of the text-size widget as the Text-Size Patcher writes it.
ControlMarkup == {"cmt", "tsc", "rest", "tail"}

\* C1: when the Text-Size Patcher is run twice in a row, the second run
\* leaves the content as the first run left it, and if the first run modified
\* the file the second run takes the "already has text-size control" branch:
\* it returns False and does not write.
TextSizeIdempotent ==
    (prev.p = "size" /\ last.p = "size") =>
        /\ content = before
        /\ prev.ret =>
            /\ last.outcome = "already has text-size control"
            /\ ~last.ret
            /\ ~last.wrote

TextSizeTwice == prev.p = "size" /\ prev.ret /\ last.p = "size"

\* C2: when the Dark-Mode Patcher is run twice in a row, whatever branch
\* either run takes and whether or not a substitution matched, the second
\* run leaves the content as the first run left it.
DarkModeIdempotent == (prev.p = "dark" /\ last.p = "dark") => content = before

DarkModeTwice ==
    /\ prev.p = "dark" /\ prev.ret
    /\ last.p = "dark" /\ last.outcome = "already has dark mode toggle"

\* A page with the insertion anchor and none of the literals either patcher
\* looks for or writes.
PipelinePage(c) ==
    /\ \E i \in 1..Len(c) : At(c, i) = "icons" /\ At(c, SkipWs(c, i + 1)) = "body"
    /\ Count(c, {"tsc", "tscw", "cmt", "tail", "sc", "btn", "btnx", "scclose", "tt"}) = 0

WrappedControls ==
    <<"sc", "ws", "btn", "ws", "tsc", "rest", "ws", "tail",
      "ws", "ws", "scclose", "ws", "tt", "ws", "ws", "icons">>

\* C3: on a page with the insertion anchor and none of the markers, the
\* Text-Size Patcher and then the Dark-Mode Patcher both report an update;
\* the result holds, in this order and ending at the icon-initialization
\* script tag, the wrapper opening, the theme-toggle button, the
\* text-size-control block with its script, the wrapper close and the
\* toggleTheme script; every later run of either patcher leaves the content
\* unchanged and returns False (is counted as skipped).
PipelineResult ==
    PipelinePage(orig) =>
        /\ pipeline = <<"size">> => last.ret
        /\ pipeline = <<"size", "dark">> =>
            last.ret /\ HasSegment(content, WrappedControls)
        /\ pipeline = <<"size", "dark", "more">> =>
            /\ ~last.ret
            /\ content = before
            /\ HasSegment(content, WrappedControls)

PipelineRunOn == PipelinePage(orig) /\ pipeline = <<"size", "dark", "more">>

\* C4 as stated: on a file without a text-size-control container the
\* Dark-Mode Patcher leaves the file unchanged, does not write, returns False
\* and reports "missing text-size-control, skipping".
DarkOnUnsizedReportsMissing ==
    (last.p = "dark" /\ Count(before, {"tsc"}) = 0) =>
        /\ content = before
        /\ ~last.wrote
        /\ ~last.ret
        /\ last.outcome = "missing text-size-control, skipping"

\* C4, amended: on a file without a text-size-control container the
\* Dark-Mode Patcher leaves the file unchanged, does not write and returns
\* False; it reports "missing text-size-control, skipping" unless the file
\* holds the word toggleTheme, and then "already has dark mode toggle".
DarkOnUnsizedSkips ==
    (last.p = "dark" /\ Count(before, {"tsc"}) = 0) =>
        /\ content = before
        /\ ~last.wrote
        /\ ~last.ret
        /\ last.outcome =
             IF Count(before, {"btn", "tt"}) > 0
             THEN "already has dark mode toggle"
             ELSE "missing text-size-control, skipping"

DarkOnUnsized ==
    /\ last.p = "dark"
    /\ Count(before, {"tsc"}) = 0
    /\ last.outcome = "missing text-size-control, skipping"

\* C5: when the Text-Size Patcher modifies a file it inserts the snippet
\* once, however many anchors the file holds: the output is the input plus
\* one snippet and holds exactly one text-size-control block.
InsertOnce ==
    (last.p = "size" /\ last.ret) =>
        /\ Count(content, {"tsc"}) = 1
        /\ Len(content) = Len(before) + Len(TEXT_SIZE_CONTROL)

\* A text-size-control block: the comment, the container, the script's end.
ControlBlock(c) ==
    \E i, k \in 1..Len(c) :
        /\ c[i] = "cmt"
        /\ At(c, SkipWs(c, i + 1)) = "tsc"
        /\ k > i
        /\ c[k] = "tail"

\* C6: after one run of the Dark-Mode Patcher on a file with a
\* text-size-control block, no site-controls wrapper and no toggle-function
\* marker, the file holds exactly one wrapper opening, one theme-toggle
\* button and one toggleTheme definition, and the text-size-control markup is
\* as it was.
StateCResult ==
    (/\ last.p = "dark"
     /\ ControlBlock(before)
     /\ Count(before, {"sc"}) = 0
     /\ Count(before, {"btn", "tt"}) = 0) =>
        /\ Count(content, {"sc"}) = 1
        /\ Count(content, {"btn", "btnx"}) = 1
        /\ Count(content, {"tt"}) = 1
        /\ Filter(content, ControlMarkup) = Filter(before, ControlMarkup)

\* C7: after one run of the Dark-Mode Patcher on a file with the
\* text-size-control block and the site-controls wrapper but no toggle button
\* and no toggle-function marker, the file holds exactly one theme-toggle
\* button, inside the wrapper right before the text-size control, still one
\* wrapper opening, and the toggle script iff the wrapper-close marker was
\* absent.
StateDResult ==
    (/\ last.p = "dark"
     /\ Count(before, {"tsc"}) > 0
     /\ Count(before, {"tail"}) > 0
     /\ Count(before, {"sc"}) = 1
     /\ Count(before, {"btn", "btnx"}) = 0
     /\ Count(before, {"tt"}) = 0) =>
        /\ Count(content, {"btn", "btnx"}) = 1
        /\ \E i \in 1..Len(content) :
              LET j == SkipWs(content, i + 1)
              IN  /\ content[i] = "sc"
                  /\ At(content, j) = "btn"
                  /\ At(content, SkipWs(content, j + 1)) = "tsc"
        /\ Count(content, {"sc"}) = 1
        /\ (Count(content, {"tt"}) = 1) <=> (Count(before, {"scclose"}) = 0)

\* Positions of the size levels in the order small < normal < large.
Level(size) == CHOOSE n \in 0..2 : sizes[n + 1] = size

\* C8: starting from 'normal', after any sequence of decrease, increase and
\* reset the persisted level is one of small, normal, large; increase moves
\* one step up and is a no-op at large, decrease moves one step down and is a
\* no-op at small, reset yields normal (so increase, increase, decrease,
\* decrease gives large, large, normal, small), and after each action exactly
\* the button at the position of the new level is active.
SizeClamp ==
    /\ \A n \in 1..Len(clicks) :
        LET e == clicks[n]
        IN  /\ e.from = IF n = 1 THEN "normal" ELSE clicks[n - 1].to
            /\ e.to \in {"small", "normal", "large"}
            /\ e.action = "increase" =>
                 Level(e.to) = IF Level(e.from) = 2 THEN 2 ELSE Level(e.from) + 1
            /\ e.action = "decrease" =>
                 Level(e.to) = IF Level(e.from) = 0 THEN 0 ELSE Level(e.from) - 1
            /\ e.action = "reset" => e.to = "normal"
    /\ (Len(clicks) > 0 /\ clicks[Len(clicks)].action # "load") =>
        /\ textSize = clicks[Len(clicks)].to
        /\ active = {Level(textSize)}
    /\ (Len(clicks) >= 4
        /\ [n \in 1..4 |-> clicks[n].action]
             = <<"increase", "increase", "decrease", "decrease">>) =>
        [n \in 1..4 |-> clicks[n].to] = <<"large", "large", "normal", "small">>

ClampedAtBothEnds ==
    /\ \E n \in 1..Len(clicks) :
        clicks[n].action = "increase" /\ clicks[n].from = "large"
    /\ \E n \in 1..Len(clicks) :
        clicks[n].action = "decrease" /\ clicks[n].from = "small"

\* The target marker of the running patcher.
HasTargetMarker(p, c) ==
    IF p = "size" THEN Count(c, {"tsc", "tscw"}) > 0 ELSE Count(c, {"btn", "tt"}) > 0

\* C9: at the end of a sweep of either patcher, Updated + Skipped is the
\* number of files processed, Updated is the number of files whose content
\* the sweep changed and Skipped the number it left unchanged; for 5 files of
\* which 2 already hold the target marker, Updated is 3 and Skipped is 2.
SummaryCounters ==
    pc = "done" =>
        /\ updated + skipped = Len(files)
        /\ updated = Cardinality({i \in 1..Len(files) : files[i] # start[i]})
        /\ skipped = Cardinality({i \in 1..Len(files) : files[i] = start[i]})
        /\ (/\ Len(files) = 5
            /\ Cardinality({i \in 1..5 : HasTargetMarker(patcher, start[i])}) = 2) =>
                updated = 3 /\ skipped = 2

\* C10 as stated: no content makes the Dark-Mode Patcher take its final
\* branch, "already complete".
AlreadyCompleteUnreachable == last.outcome # "already complete"

\* C10, amended: the Dark-Mode Patcher takes its final branch exactly on a
\* file that holds the text-size-control container, the site-controls
\* wrapper and a theme-toggle button whose markup does not mention
\* toggleTheme, with the word toggleTheme nowhere in the file; so never on a
\* file whose theme-toggle buttons are all the markup the patcher inserts.
AlreadyCompleteOnlyForeignButton ==
    last.p = "dark" =>
        (last.outcome = "already complete") <=>
            /\ Count(before, {"btn", "tt"}) = 0
            /\ Count(before, {"tsc"}) > 0
            /\ Count(before, {"sc"}) > 0
            /\ Count(before, {"btnx"}) > 0

PatchedButtonInWrapper ==
    /\ last.p = "dark"
    /\ Count(before, {"btn"}) > 0
    /\ Count(before, {"btnx"}) = 0
    /\ Count(before, {"sc"}) > 0
    /\ Count(before, {"tsc"}) > 0

=============================================================================
